---- MODULE Spec2Model ----
(***************************************************************************)
(* Protocol engines of the Winbond W25 NOR flash driver: the blocking      *)
(* engine FlashSpi (src/src/comms.rs) and the suspending engine            *)
(* AsyncFlashSpi (src/src/async_comms.rs), run by a single caller against  *)
(* a bus transport and a mock chip.  One step of the model is one bus      *)
(* transaction (spi.transaction) or one timed suspension (delay_ms).       *)
(***************************************************************************)
EXTENDS Integers, Sequences, FiniteSets, TLC

VARIABLES
    chip,    \* the mock chip behind the transport: busy, wel, ...
    mem,     \* the mock chip's memory cells
    handle,  \* which engine object the caller holds: "none", "blocking", "async"
    call,    \* the operation in progress (or the last one): engine, op, arguments
    pc,      \* index of the current step in the operation's step list; 0 before any call
    phase,   \* position inside the current step: "txn", "delay", "warn"
    result,  \* "none" while the call runs, then "Ok" or "Err"
    ret,     \* the value the call returned: <<>>, <<status>>, <<bool>>, id bytes
    buf,     \* the caller's buffer after a read
    log,     \* the transactions and suspensions of this call, in order
    prog     \* <<[addr, data]>> when the previous call was a page_program that returned Ok

vars == <<chip, mem, handle, call, pc, phase, result, ret, buf, log, prog>>

\* ---------------------------------------------------------------- bounds

\* Longest busy period of the mock chip, in status polls.
MaxBusy == 2
\* Longest data slice / buffer handed to page_program and read.
MaxLen == 2
\* Events one call may log; above the longest call against a chip that is
\* not stuck (the suspending chip_erase: 4 * MaxBusy + 4).
MaxLog == 4 * MaxBusy + 6

\* ---------------------------------------------------------------- bytes

Bit(b, i) == (b \div (2 ^ i)) % 2

\* u8 & u8
And8(a, b) ==
    Bit(a, 0) * Bit(b, 0) + 2 * Bit(a, 1) * Bit(b, 1) + 4 * Bit(a, 2) * Bit(b, 2)
    + 8 * Bit(a, 3) * Bit(b, 3) + 16 * Bit(a, 4) * Bit(b, 4) + 32 * Bit(a, 5) * Bit(b, 5)
    + 64 * Bit(a, 6) * Bit(b, 6) + 128 * Bit(a, 7) * Bit(b, 7)

\* u8 | u8
Or8(a, b) == a + b - And8(a, b)

\* A u32 is held as its two 16-bit halves (TLC's integers are 32-bit signed):
\* U32(hi, lo) is hi * 2^16 + lo.
U32(hi, lo) == [hi |-> hi, lo |-> lo]

\* (a >> s) as u8 for a: u32 and 0 <= s <= 24: the low 8 bits of a shifted right by s
ShrU8(a, s) ==
    IF s >= 16
    THEN (a.hi \div (2 ^ (s - 16))) % 256
    ELSE ((a.hi % (2 ^ s)) * (2 ^ (16 - s)) + a.lo \div (2 ^ s)) % 256

\* ---------------------------------------------------------------- Opcode

ReadMfDId == 144
ReadJedecId == 159
WriteEnable == 6
ReadStatus == 5
Read == 3
PageProg == 2
SectorErase == 32
ChipErase == 199
EnableReset == 102
Reset == 153

\* ---------------------------------------------------------------- Status

BUSY == 1
WEL == 2
PROT == 28
SRWD == 128

\* bitflags: the union of the declared flags
Status_all == Or8(Or8(BUSY, WEL), Or8(PROT, SRWD))

\* Status::from_bits_retain in place of from_bits_truncate: unknown bits kept
from_bits_retain(b) == b

\* Status::from_bits_truncate
from_bits_truncate(b) == And8(b, Status_all)

\* Status::contains
contains(s, flag) == And8(s, flag) = flag

\* (s & flag).is_empty()
is_empty(s) == s = 0

\* ---------------------------------------------------------------- segments

\* Operation::Write(bytes)
W(bytes) == [w |-> TRUE, bytes |-> bytes, len |-> Len(bytes)]

\* Operation::Read(buf), buf of n bytes
R(n) == [w |-> FALSE, bytes |-> <<>>, len |-> n]

\* Header with the address taken one byte too high (bits 31..8)
Header_from_bit_24(opcode, addr) ==
    <<opcode, ShrU8(addr, 24), ShrU8(addr, 16), ShrU8(addr, 8)>>

\* opcode and the three address bytes of a frame
Header(opcode, addr) == <<opcode, ShrU8(addr, 16), ShrU8(addr, 8), ShrU8(addr, 0)>>

\* ------------------------------------------------- FlashSpi (comms.rs)
\* A handler is the list of its steps.  Step kinds:
\*   "poll"   loop { read status; leave when not `test` on `mask`; else delay }
\*   "cmd"    one transaction made by command()
\*   "xfer"   one transaction made by spi.transaction directly
\*   "is_wel" if !is_wel()? { warn!(read_status()?) }
\*   "query"  one command_with_response whose answer is returned

\* the transaction of command(bytes)
command(bytes) == <<W(bytes)>>

\* the transaction of command_with_response(instruction, response), n = response.len()
command_with_response(instruction, n) == <<W(instruction), R(n)>>

\* read_status: the transaction, and the (1-based) place of the decoded byte
read_status == [k |-> "query", segs |-> command_with_response(<<ReadStatus>>, 2),
                idx |-> 2, f |-> "status", mask |-> Status_all]

\* is_busy deciding on response[0], the placeholder byte
is_busy_from_first_byte ==
    [k |-> "query", segs |-> <<W(<<ReadStatus>>), R(2)>>, idx |-> 1, f |-> "flag", mask |-> BUSY]

\* is_busy: !(status & BUSY).is_empty()
is_busy == [k |-> "query", segs |-> read_status.segs, idx |-> read_status.idx,
            f |-> "flag", mask |-> BUSY]

\* is_wel: !(status & WEL).is_empty()
is_wel == [k |-> "query", segs |-> read_status.segs, idx |-> read_status.idx,
           f |-> "flag", mask |-> WEL]

\* wait_done testing response[0], the placeholder byte
wait_done_on_first_byte ==
    [k |-> "poll", segs |-> <<W(<<ReadStatus>>), R(2)>>, idx |-> 1,
     test |-> "contains", mask |-> BUSY, delay |-> <<>>]

\* wait_done with the guard of init: it also waits for WEL to clear
wait_done_until_wel_clear ==
    [k |-> "poll", segs |-> read_status.segs, idx |-> read_status.idx,
     test |-> "any", mask |-> Or8(BUSY, WEL), delay |-> <<>>]

\* wait_done: while read_status()?.contains(BUSY) {}
wait_done == [k |-> "poll", segs |-> read_status.segs, idx |-> read_status.idx,
              test |-> "contains", mask |-> BUSY, delay |-> <<>>]

\* write_enable: command([WriteEnable])
write_enable == [k |-> "cmd", segs |-> command(<<WriteEnable>>)]

\* read without its leading wait_done
read_without_wait_done(addr, n) ==
    << [k |-> "xfer", segs |-> <<W(Header(Read, addr)), R(n)>>] >>

read(addr, n) ==
    << wait_done,
       [k |-> "xfer", segs |-> <<W(Header(Read, addr)), R(n)>>] >>

\* sector_erase without write_enable
sector_erase_without_write_enable(addr) ==
    << wait_done,
       [k |-> "cmd", segs |-> command(Header(SectorErase, addr))] >>

sector_erase(addr) ==
    << wait_done,
       write_enable,
       [k |-> "cmd", segs |-> command(Header(SectorErase, addr))] >>

\* page_program without its leading wait_done
page_program_without_wait_done(addr, data) ==
    << write_enable,
       [k |-> "is_wel", segs |-> is_wel.segs, idx |-> is_wel.idx, mask |-> is_wel.mask,
        warn |-> read_status.segs],
       [k |-> "xfer", segs |-> <<W(Header(PageProg, addr)), W(data)>>] >>

page_program(addr, data) ==
    << wait_done,
       write_enable,
       [k |-> "is_wel", segs |-> is_wel.segs, idx |-> is_wel.idx, mask |-> is_wel.mask,
        warn |-> read_status.segs],
       [k |-> "xfer", segs |-> <<W(Header(PageProg, addr)), W(data)>>] >>

\* chip_erase waiting for the erase to finish before it returns
chip_erase_then_wait_done ==
    << wait_done,
       write_enable,
       [k |-> "cmd", segs |-> command(<<ChipErase>>)],
       wait_done >>

chip_erase ==
    << wait_done,
       write_enable,
       [k |-> "cmd", segs |-> command(<<ChipErase>>)] >>

software_reset ==
    << wait_done,
       write_enable,
       [k |-> "cmd", segs |-> command(<<EnableReset>>)],
       wait_done,
       [k |-> "cmd", segs |-> command(<<Reset>>)] >>

\* init whose guard forgets BUSY
init_on_wel_only ==
    << [k |-> "poll", segs |-> read_status.segs, idx |-> read_status.idx,
        test |-> "any", mask |-> WEL, delay |-> <<>>] >>

\* init with the guard of the suspending engine: Busy only
init_on_busy_only ==
    << [k |-> "poll", segs |-> read_status.segs, idx |-> read_status.idx,
        test |-> "any", mask |-> BUSY, delay |-> <<>>] >>

\* init: loop { status = read_status()?; if (status & (BUSY | WEL)).is_empty() break }
init ==
    << [k |-> "poll", segs |-> read_status.segs, idx |-> read_status.idx,
        test |-> "any", mask |-> Or8(BUSY, WEL), delay |-> <<>>] >>

read_manufacturer_device_id ==
    [k |-> "query", segs |-> command_with_response(<<ReadMfDId, 0, 0, 0>>, 2),
     idx |-> 1, f |-> "raw", mask |-> 0]

\* read_jedec_id with a buffer of the 11 identification bytes only
read_jedec_id_into_11_bytes ==
    [k |-> "query", segs |-> command_with_response(<<ReadJedecId>>, 11),
     idx |-> 2, f |-> "tail", mask |-> 0]

\* read_jedec_id: 12 bytes are read, buf[1..] goes to the identification decoder
read_jedec_id ==
    [k |-> "query", segs |-> command_with_response(<<ReadJedecId>>, 12),
     idx |-> 2, f |-> "tail", mask |-> 0]

\* ------------------------------------------- AsyncFlashSpi (async_comms.rs)

async_command(bytes) == <<W(bytes)>>

async_command_with_response(instruction, n) == <<W(instruction), R(n)>>

async_read_status == [k |-> "query", segs |-> async_command_with_response(<<ReadStatus>>, 2),
                      idx |-> 2, f |-> "status", mask |-> Status_all]

async_is_busy == [k |-> "query", segs |-> async_read_status.segs, idx |-> async_read_status.idx,
                  f |-> "flag", mask |-> BUSY]

async_is_wel == [k |-> "query", segs |-> async_read_status.segs, idx |-> async_read_status.idx,
                 f |-> "flag", mask |-> WEL]

\* wait_done suspending between its polls, as the chip_erase loop does
async_wait_done_with_delay ==
    [k |-> "poll", segs |-> async_read_status.segs, idx |-> async_read_status.idx,
     test |-> "contains", mask |-> BUSY, delay |-> <<100>>]

\* wait_done: while read_status().await?.contains(BUSY) {}  (no suspension)
async_wait_done == [k |-> "poll", segs |-> async_read_status.segs, idx |-> async_read_status.idx,
                    test |-> "contains", mask |-> BUSY, delay |-> <<>>]

async_write_enable == [k |-> "cmd", segs |-> async_command(<<WriteEnable>>)]

async_read(addr, n) ==
    << async_wait_done,
       [k |-> "xfer", segs |-> <<W(Header(Read, addr)), R(n)>>] >>

async_sector_erase(addr) ==
    << async_wait_done,
       async_write_enable,
       [k |-> "cmd", segs |-> async_command(Header(SectorErase, addr))] >>

\* page_program without the WEL check
async_page_program_without_wel_check(addr, data) ==
    << async_wait_done,
       async_write_enable,
       [k |-> "xfer", segs |-> <<W(Header(PageProg, addr)), W(data)>>] >>

async_page_program(addr, data) ==
    << async_wait_done,
       async_write_enable,
       [k |-> "is_wel", segs |-> async_is_wel.segs, idx |-> async_is_wel.idx,
        mask |-> async_is_wel.mask, warn |-> async_read_status.segs],
       [k |-> "xfer", segs |-> <<W(Header(PageProg, addr)), W(data)>>] >>

\* the chip_erase loop spinning without delay_ms
async_busy_loop_without_delay ==
    [k |-> "poll", segs |-> async_is_busy.segs, idx |-> async_is_busy.idx,
     test |-> "any", mask |-> async_is_busy.mask, delay |-> <<>>]

\* while is_busy().await? { delay_ms(100).await }
async_busy_delay_loop ==
    [k |-> "poll", segs |-> async_is_busy.segs, idx |-> async_is_busy.idx,
     test |-> "any", mask |-> async_is_busy.mask, delay |-> <<100>>]

\* chip_erase returning right after the command, as the blocking one does
async_chip_erase_returning_early ==
    << async_busy_delay_loop,
       async_write_enable,
       [k |-> "cmd", segs |-> async_command(<<ChipErase>>)] >>

async_chip_erase ==
    << async_busy_delay_loop,
       async_write_enable,
       [k |-> "cmd", segs |-> async_command(<<ChipErase>>)],
       async_busy_delay_loop >>

\* the suspending init with the guard of the blocking one
async_init_with_blocking_guard ==
    << [k |-> "poll", segs |-> async_read_status.segs, idx |-> async_read_status.idx,
        test |-> "any", mask |-> Or8(BUSY, WEL), delay |-> <<10>>] >>

\* the suspending init retrying at once, as the blocking one does
async_init_without_delay ==
    << [k |-> "poll", segs |-> async_read_status.segs, idx |-> async_read_status.idx,
        test |-> "any", mask |-> BUSY, delay |-> <<>>] >>

\* init: loop { status = read_status().await?; if (status & BUSY).is_empty() break;
\*              delay_ms(10).await }
async_init ==
    << [k |-> "poll", segs |-> async_read_status.segs, idx |-> async_read_status.idx,
        test |-> "any", mask |-> BUSY, delay |-> <<10>>] >>

\* ---------------------------------------------------------------- dispatch

\* the step list of a call
Script(c) ==
    IF c.engine = "blocking"
    THEN CASE c.op = "init" -> init
           [] c.op = "read" -> read(c.addr, c.n)
           [] c.op = "sector_erase" -> sector_erase(c.addr)
           [] c.op = "page_program" -> page_program(c.addr, c.data)
           [] c.op = "chip_erase" -> chip_erase
           [] c.op = "software_reset" -> software_reset
           [] c.op = "read_status" -> <<read_status>>
           [] c.op = "is_busy" -> <<is_busy>>
           [] c.op = "is_wel" -> <<is_wel>>
           [] c.op = "read_manufacturer_device_id" -> <<read_manufacturer_device_id>>
           [] c.op = "read_jedec_id" -> <<read_jedec_id>>
           [] OTHER -> <<>>
    ELSE CASE c.op = "init" -> async_init
           [] c.op = "read" -> async_read(c.addr, c.n)
           [] c.op = "sector_erase" -> async_sector_erase(c.addr)
           [] c.op = "page_program" -> async_page_program(c.addr, c.data)
           [] c.op = "chip_erase" -> async_chip_erase
           [] c.op = "read_status" -> <<async_read_status>>
           [] c.op = "is_busy" -> <<async_is_busy>>
           [] c.op = "is_wel" -> <<async_is_wel>>
           [] OTHER -> <<>>

\* ---------------------------------------------------------------- inputs

Engines == {"blocking", "async"}

\* addresses the caller passes: 0x00010203 and 0xAB010203 (the same low 24 bits)
Addrs == {U32(1, 515), U32(43777, 515)}

\* the bytes the caller programs: 0xA5, 0x5A, 0x3C, 0xC3, ...
Pattern == [i \in 1..(MaxLen + 1) |-> <<165, 90, 60, 195>>[((i - 1) % 4) + 1]]

\* data slices of at most MaxLen bytes: the pattern from its first or second byte on
Data == {SubSeq(Pattern, f, f + l - 1) : f \in 1..2, l \in 0..MaxLen}

NoCall == [engine |-> "none", op |-> "none", addr |-> U32(0, 0), data |-> <<>>, n |-> 0]

Invoke(e, o, a, d, n) == [engine |-> e, op |-> o, addr |-> a, data |-> d, n |-> n]

InitCalls == {Invoke(e, "init", U32(0, 0), <<>>, 0) : e \in Engines}

DeviceCalls ==
    {Invoke(e, "read", a, <<>>, n) : e \in Engines, a \in Addrs, n \in 0..MaxLen}
    \cup {Invoke(e, "sector_erase", a, <<>>, 0) : e \in Engines, a \in Addrs}
    \cup {Invoke(e, "page_program", a, d, 0) : e \in Engines, a \in Addrs, d \in Data}
    \cup {Invoke(e, "chip_erase", U32(0, 0), <<>>, 0) : e \in Engines}
    \cup {Invoke("blocking", "software_reset", U32(0, 0), <<>>, 0)}

QueryCalls ==
    {Invoke(e, o, U32(0, 0), <<>>, 0) : e \in Engines, o \in {"read_status", "is_busy", "is_wel"}}

IdCalls ==
    {Invoke("blocking", o, U32(0, 0), <<>>, 0) : o \in {"read_manufacturer_device_id", "read_jedec_id"}}

AllCalls == InitCalls \cup DeviceCalls \cup QueryCalls \cup IdCalls

\* ---------------------------------------------------------------- mock chip

\* erased state of a memory cell (FFh)
Erased == 255

\* What a chip holds fixed: <<hi, dummy>>, hi the protection / SRWD / unused bits
\* (2..7) of its status register, dummy the placeholder byte clocked in before
\* the status byte.
Configs == {<<0, 255>>, <<252, 0>>}

\* the low 24 bits of a u32: the cell a 24-bit frame address selects
Low24(a) == (a.hi % 256) * 65536 + a.lo

\* the cells of the chip the model tracks
MemCells == {(Low24(a) + i) % (2 ^ 24) : a \in Addrs, i \in 0..(MaxLen - 1)}

\* the 24-bit address a frame carries
FrameAddr(out) == IF Len(out) >= 4 THEN out[2] * 65536 + out[3] * 256 + out[4] ELSE 0

ChipBusy(c) == c.stuck \/ c.busy > 0

\* the status register byte
ChipStatus(c) ==
    c.hi + (IF c.wel THEN WEL ELSE 0) + (IF ChipBusy(c) THEN BUSY ELSE 0)

\* one status poll passes: a busy period ends after its polls, and WEL clears with it
ChipTick(c) ==
    IF ~c.stuck /\ c.busy > 0
    THEN [c EXCEPT !.busy = @ - 1, !.wel = IF c.busy = 1 THEN FALSE ELSE @, !.rstEn = FALSE]
    ELSE [c EXCEPT !.rstEn = FALSE]

\* a mutating command is accepted when the chip is idle with WEL set
ChipAccepts(c) == ~ChipBusy(c) /\ c.wel

\* the chip after an accepted mutating command: busy for k polls
ChipMutated(c, k) == [c EXCEPT !.busy = k, !.wel = (k > 0), !.rstEn = FALSE]

MemProgram(m, a, d) ==
    [x \in MemCells |->
        IF \E i \in 1..Len(d) : (a + i - 1) % (2 ^ 24) = x
        THEN d[CHOOSE i \in 1..Len(d) : (a + i - 1) % (2 ^ 24) = x]
        ELSE m[x]]

MemSectorErase(m, a) ==
    [x \in MemCells |-> IF x \div 4096 = a \div 4096 THEN Erased ELSE m[x]]

MemChipErase(m) == [x \in MemCells |-> Erased]

MemRead(c, m, a, n) ==
    [i \in 1..n |->
        IF ChipBusy(c) THEN 0
        ELSE LET x == (a + i - 1) % (2 ^ 24) IN IF x \in MemCells THEN m[x] ELSE Erased]

JedecId == <<239, 64, 24>>

MfDId == <<239, 23>>

\* what the chip does with one transaction: its next state, memory and inbound bytes
ChipExec(c, m, segs, k) ==
    LET out == segs[1].bytes
        opc == IF Len(out) >= 1 THEN out[1] ELSE 0
        n == IF Len(segs) >= 2 /\ ~segs[2].w THEN segs[2].len ELSE 0
        d == IF Len(segs) >= 2 /\ segs[2].w THEN segs[2].bytes ELSE <<>>
        a == FrameAddr(out)
        quiet == [c EXCEPT !.rstEn = FALSE]
        none == [i \in 1..n |-> 0]
    IN  CASE opc = ReadStatus ->
               [chip |-> ChipTick(c), mem |-> m,
                resp |-> [i \in 1..n |-> IF i = 1 THEN c.dummy ELSE ChipStatus(c)]]
          [] opc = WriteEnable ->
               [chip |-> IF ChipBusy(c) \/ ~c.latch THEN quiet ELSE [quiet EXCEPT !.wel = TRUE],
                mem |-> m, resp |-> none]
          [] opc = PageProg ->
               IF ChipAccepts(c)
               THEN [chip |-> ChipMutated(c, k), mem |-> MemProgram(m, a, d), resp |-> none]
               ELSE [chip |-> quiet, mem |-> m, resp |-> none]
          [] opc = SectorErase ->
               IF ChipAccepts(c)
               THEN [chip |-> ChipMutated(c, k), mem |-> MemSectorErase(m, a), resp |-> none]
               ELSE [chip |-> quiet, mem |-> m, resp |-> none]
          [] opc = ChipErase ->
               IF ChipAccepts(c)
               THEN [chip |-> ChipMutated(c, k), mem |-> MemChipErase(m), resp |-> none]
               ELSE [chip |-> quiet, mem |-> m, resp |-> none]
          [] opc = Read ->
               [chip |-> quiet, mem |-> m, resp |-> MemRead(c, m, a, n)]
          [] opc = EnableReset ->
               [chip |-> IF ChipBusy(c) THEN quiet ELSE [c EXCEPT !.rstEn = TRUE],
                mem |-> m, resp |-> none]
          [] opc = Reset ->
               [chip |-> IF c.rstEn /\ ~ChipBusy(c) THEN [quiet EXCEPT !.wel = FALSE] ELSE quiet,
                mem |-> m, resp |-> none]
          [] opc = ReadMfDId ->
               [chip |-> quiet, mem |-> m, resp |-> [i \in 1..n |-> MfDId[((i - 1) % 2) + 1]]]
          [] opc = ReadJedecId ->
               [chip |-> quiet, mem |-> m, resp |-> [i \in 1..n |-> JedecId[((i - 1) % 3) + 1]]]
          [] OTHER -> [chip |-> quiet, mem |-> m, resp |-> none]

\* busy periods a transaction may start: only an accepted mutating command starts one
BusyPeriods(segs) ==
    LET out == segs[1].bytes IN
    IF Len(out) >= 1 /\ out[1] \in {PageProg, SectorErase, ChipErase} /\ ChipAccepts(chip)
    THEN 0..MaxBusy
    ELSE {0}

\* The chips the driver may meet: busy for some polls or idle at first, WEL set
\* or clear; stuck: Busy never clears; latch: WriteEnable sets WEL (a chip
\* without it never takes a mutating command).
ChipsOf(configs) ==
    {c \in [busy : 0..MaxBusy, wel : BOOLEAN, stuck : BOOLEAN, latch : BOOLEAN,
            hi : {g[1] : g \in configs}, dummy : {g[2] : g \in configs}, rstEn : {FALSE}] :
        /\ <<c.hi, c.dummy>> \in configs
        /\ c.stuck => c.busy = 0
        /\ ~c.latch => ~c.stuck /\ ~c.wel}

Chips == ChipsOf(Configs)

\* ---------------------------------------------------------------- transport

\* outcomes of one spi.transaction: TRUE it went through, FALSE the transport failed
Outcomes == BOOLEAN

TxnEvent(segs, ok, resp) == [kind |-> "txn", segs |-> segs, ok |-> ok, resp |-> resp, ms |-> 0]

DelayEvent(ms) == [kind |-> "delay", segs |-> <<>>, ok |-> TRUE, resp |-> <<>>, ms |-> ms]

\* the inbound bytes the chip gives to this transaction
Response(segs) == ChipExec(chip, mem, segs, 0).resp

\* self.spi.transaction(segs): a failed transaction does not reach the chip
Transaction(segs, ok, k) ==
    LET r == ChipExec(chip, mem, segs, k) IN
    /\ chip' = IF ok THEN r.chip ELSE chip
    /\ mem' = IF ok THEN r.mem ELSE mem
    /\ log' = Append(log, TxnEvent(segs, ok, IF ok THEN r.resp ELSE <<>>))

\* ---------------------------------------------------------------- control

Cur == Script(call)[pc]

Running == pc >= 1 /\ result = "none" /\ Len(log) < MaxLog

\* a transport error dropped: the call goes on and issues the transaction again
Fail_ignored == UNCHANGED <<pc, phase, result, handle>>

\* `?` on a transport error: the call returns Err at once
Fail ==
    /\ result' = "Err"
    /\ UNCHANGED <<pc, phase, handle>>

\* the step is done: go to the next one, or return Ok after the last
Advance ==
    IF pc = Len(Script(call))
    THEN /\ result' = "Ok"
         /\ handle' = IF call.op = "init" THEN call.engine ELSE handle
         /\ UNCHANGED pc
    ELSE /\ pc' = pc + 1
         /\ UNCHANGED <<result, handle>>

\* the decoded status of a status transaction
Decoded(step) == from_bits_truncate(Response(step.segs)[step.idx])

\* the loop test of a poll step on a decoded status
NotReady(step, st) ==
    IF step.test = "contains"
    THEN contains(st, step.mask)
    ELSE ~is_empty(And8(st, step.mask))

\* what a query returns
Answer(step) ==
    LET resp == Response(step.segs) IN
    CASE step.f = "status" -> <<from_bits_truncate(resp[step.idx])>>
      [] step.f = "flag" -> <<~is_empty(And8(from_bits_truncate(resp[step.idx]), step.mask))>>
      [] step.f = "tail" -> Tail(resp)
      [] OTHER -> resp

\* ---------------------------------------------------------------- actions

\* the caller starts an operation: init at any time, the others on the engine it holds
CallOf(calls) ==
    /\ pc = 0
    /\ \E c \in calls :
        /\ c.op = "init" \/ c.engine = handle
        /\ call' = c
        /\ handle' = IF c.op = "init" THEN "none" ELSE handle
    /\ pc' = 1
    /\ UNCHANGED <<chip, mem, phase, result, ret, buf, log, prog>>

\* the caller has the result of the call and is free to make the next one
Return ==
    /\ result # "none"
    /\ call' = NoCall
    /\ pc' = 0
    /\ phase' = "txn"
    /\ result' = "none"
    /\ ret' = <<>>
    /\ buf' = <<>>
    /\ log' = <<>>
    /\ prog' = IF call.op = "page_program" /\ result = "Ok"
               THEN <<[addr |-> call.addr, data |-> call.data]>>
               ELSE <<>>
    /\ UNCHANGED <<chip, mem, handle>>

Call == CallOf(AllCalls)

\* one status read of a polling loop (wait_done, init, the is_busy loops of chip_erase)
Poll ==
    /\ Running /\ Cur.k = "poll" /\ phase = "txn"
    /\ \E ok \in Outcomes :
        /\ Transaction(Cur.segs, ok, 0)
        /\ IF ~ok THEN Fail
           ELSE IF ~NotReady(Cur, Decoded(Cur)) THEN Advance /\ UNCHANGED phase
           ELSE IF Cur.delay = <<>> THEN UNCHANGED <<pc, phase, result, handle>>
           ELSE phase' = "delay" /\ UNCHANGED <<pc, result, handle>>
    /\ UNCHANGED <<call, ret, buf, prog>>

\* delay_ms(ms) between two polls
Delay ==
    /\ Running /\ Cur.k = "poll" /\ phase = "delay"
    /\ log' = Append(log, DelayEvent(Cur.delay[1]))
    /\ phase' = "txn"
    /\ UNCHANGED <<chip, mem, handle, call, pc, result, ret, buf, prog>>

\* command(bytes)?
Command ==
    /\ Running /\ Cur.k = "cmd"
    /\ \E ok \in Outcomes : \E k \in BusyPeriods(Cur.segs) :
        /\ Transaction(Cur.segs, ok, k)
        /\ IF ok THEN Advance ELSE Fail
    /\ UNCHANGED <<call, phase, ret, buf, prog>>

\* spi.transaction([Write(header), Read(buf)]) / ([Write(header), Write(data)])
Transfer ==
    /\ Running /\ Cur.k = "xfer"
    /\ \E ok \in Outcomes : \E k \in BusyPeriods(Cur.segs) :
        /\ Transaction(Cur.segs, ok, k)
        /\ IF ok THEN Advance ELSE Fail
        /\ buf' = IF ok /\ ~Cur.segs[2].w THEN Response(Cur.segs) ELSE buf
    /\ UNCHANGED <<call, phase, ret, prog>>

\* if !self.is_wel()? { ... }
CheckWel ==
    /\ Running /\ Cur.k = "is_wel" /\ phase = "txn"
    /\ \E ok \in Outcomes :
        /\ Transaction(Cur.segs, ok, 0)
        /\ IF ~ok THEN Fail
           ELSE IF ~is_empty(And8(Decoded(Cur), Cur.mask)) THEN Advance /\ UNCHANGED phase
           ELSE phase' = "warn" /\ UNCHANGED <<pc, result, handle>>
    /\ UNCHANGED <<call, ret, buf, prog>>

\* the WEL check made hard: the call returns an error instead of logging
Warn_raises ==
    /\ Running /\ Cur.k = "is_wel" /\ phase = "warn"
    /\ result' = "Err"
    /\ UNCHANGED <<chip, mem, handle, call, pc, phase, ret, buf, log, prog>>

\* defmt::warn!("WEL should be set: {:?}", self.read_status()?)
Warn ==
    /\ Running /\ Cur.k = "is_wel" /\ phase = "warn"
    /\ \E ok \in Outcomes :
        /\ Transaction(Cur.warn, ok, 0)
        /\ IF ok THEN Advance /\ phase' = "txn" ELSE Fail
    /\ UNCHANGED <<call, ret, buf, prog>>

\* read_status / is_busy / is_wel / the identification reads, called by the caller
Query ==
    /\ Running /\ Cur.k = "query"
    /\ \E ok \in Outcomes :
        /\ Transaction(Cur.segs, ok, 0)
        /\ IF ok THEN Advance ELSE Fail
        /\ ret' = IF ok THEN Answer(Cur) ELSE ret
    /\ UNCHANGED <<call, phase, buf, prog>>

\* ---------------------------------------------------------------- specification

InitOf(chips, handles) ==
    /\ chip \in chips
    /\ mem = [x \in MemCells |-> Erased]
    /\ handle \in handles
    /\ call = NoCall
    /\ pc = 0
    /\ phase = "txn"
    /\ result = "none"
    /\ ret = <<>>
    /\ buf = <<>>
    /\ log = <<>>
    /\ prog = <<>>

\* no engine exists until init has returned one
Init == InitOf(Chips, {"none"})

Next ==
    \/ Call
    \/ Return
    \/ Poll
    \/ Delay
    \/ Command
    \/ Transfer
    \/ CheckWel
    \/ Warn
    \/ Query

Spec == Init /\ [][Next]_vars

\* The address property is checked on more addresses, against one idle chip:
\* every u32 whose four bytes are each 0x00 or 0xFF, and addresses whose four
\* bytes differ from one another, with bits 24..31 varied over the same low 24.
FrameBytes == {0, 255}

FrameAddrs ==
    {U32(b3 * 256 + b2, b1 * 256 + b0) : b3 \in FrameBytes, b2 \in FrameBytes,
                                         b1 \in FrameBytes, b0 \in FrameBytes}
    \cup {U32(b3 * 256 + 2, 3 * 256 + 4) : b3 \in {0, 1, 128, 171, 255}}
    \cup {U32(128, 1 * 256 + 255), U32(1 * 256 + 128, 1 * 256 + 255)}

FrameCalls ==
    InitCalls
    \cup {Invoke(e, "read", a, <<>>, 1) : e \in Engines, a \in FrameAddrs}
    \cup {Invoke(e, "sector_erase", a, <<>>, 0) : e \in Engines, a \in FrameAddrs}
    \cup {Invoke(e, "page_program", a, <<Pattern[1]>>, 0) : e \in Engines, a \in FrameAddrs}

FrameChips == {c \in Chips : c.busy = 0 /\ ~c.wel /\ ~c.stuck /\ c.latch /\ c.hi = 0}

CallFrame == CallOf(FrameCalls)

InitFrame == InitOf(FrameChips, {"none"})

NextFrame ==
    \/ CallFrame
    \/ Return
    \/ Poll
    \/ Command
    \/ Transfer
    \/ CheckWel

SpecFrame == InitFrame /\ [][NextFrame]_vars

\* The status decoding is checked on every status byte: an engine made earlier
\* reads the status of chips holding each of the 64 values of bits 2..7, with
\* Busy and WEL as the chip has them.
StatusConfigs == {<<4 * h, d>> : h \in 0..63, d \in {0, 255}}

CallStatus == CallOf(QueryCalls)

InitStatus == InitOf(ChipsOf(StatusConfigs), Engines)

NextStatus ==
    \/ CallStatus
    \/ Return
    \/ Query

SpecStatus == InitStatus /\ [][NextStatus]_vars

\* ---------------------------------------------------------------- reading the log

IsTxn(e) == e.kind = "txn"

IsDelay(e) == e.kind = "delay"

\* the opcode of a transaction (0 for a suspension)
OpcodeOf(e) == IF IsTxn(e) /\ Len(e.segs[1].bytes) >= 1 THEN e.segs[1].bytes[1] ELSE 0

IsStatusRead(e) == IsTxn(e) /\ e.segs[1].bytes = <<ReadStatus>>

\* a status read that came back with Busy (bit 0 of the second inbound byte) clear
ReportsIdle(e) == IsStatusRead(e) /\ e.ok /\ Bit(e.resp[2], 0) = 0

\* a status read that came back with Busy set
ReportsBusy(e) == IsStatusRead(e) /\ e.ok /\ Bit(e.resp[2], 0) = 1

LogIdx == 1..Len(log)

\* ---------------------------------------------------------------- claims

MutatingOpcodes == {PageProg, SectorErase}

\* C1: in every call of page_program and sector_erase, on both engines, each
\* transaction carrying the mutating opcode (0x02 / 0x20) comes after a
\* WriteEnable transaction (0x06 alone) of the same call that went through.
C1_WriteEnableBeforeMutation ==
    call.op \in {"page_program", "sector_erase"} =>
        \A i \in LogIdx :
            OpcodeOf(log[i]) \in MutatingOpcodes =>
                \E j \in 1..(i - 1) :
                    IsTxn(log[j]) /\ log[j].ok /\ log[j].segs = <<W(<<WriteEnable>>)>>

\* a suspending page_program returned Ok after WriteEnable, then PageProgram
C1_Witness ==
    /\ call.op = "page_program" /\ call.engine = "async" /\ result = "Ok"
    /\ \E i \in LogIdx : OpcodeOf(log[i]) = PageProg
    /\ \E i \in LogIdx : OpcodeOf(log[i]) = WriteEnable

WaitingOps == {"read", "sector_erase", "page_program", "chip_erase", "software_reset"}

\* C2: in every call of read, sector_erase, page_program, chip_erase and
\* software_reset, each transaction other than ReadStatus comes after a status
\* read of the same call that returned with Busy clear; so while every status
\* read returned Busy set, the call has issued only ReadStatus transactions.
C2_NothingWhileBusy ==
    call.op \in WaitingOps =>
        /\ \A i \in LogIdx :
              (IsTxn(log[i]) /\ ~IsStatusRead(log[i])) =>
                  \E j \in 1..(i - 1) : ReportsIdle(log[j])
        /\ (\A j \in LogIdx : ~ReportsIdle(log[j])) =>
              \A i \in LogIdx : IsTxn(log[i]) => IsStatusRead(log[i])

\* software_reset met a busy chip, polled it until idle and went on
C2_Witness ==
    /\ call.op = "software_reset" /\ result = "Ok"
    /\ Len(log) >= 2 /\ ReportsBusy(log[1]) /\ ReportsBusy(log[2])

\* where the ChipErase command is in the log (0: not sent)
ChipErasePos ==
    IF \E i \in LogIdx : OpcodeOf(log[i]) = ChipErase
    THEN CHOOSE i \in LogIdx : OpcodeOf(log[i]) = ChipErase
    ELSE 0

\* the status polls after the ChipErase command that reported Busy
BusyPollsAfterErase == {i \in LogIdx : i > ChipErasePos /\ ReportsBusy(log[i])}

Delays == {i \in LogIdx : IsDelay(log[i])}

\* C3: chip_erase on the suspending engine, against a chip that is idle when
\* the call starts and busy for K status polls after the ChipErase command,
\* with no transport failure: when the call has returned, delay_ms was invoked
\* exactly K times, each time with 100 ms.
C3_ChipEraseSuspensions ==
    (/\ call.op = "chip_erase" /\ call.engine = "async" /\ result = "Ok"
     /\ ReportsIdle(log[1])) =>
        /\ Cardinality(Delays) = Cardinality(BusyPollsAfterErase)
        /\ \A i \in Delays : log[i].ms = 100

\* the chip was busy for MaxBusy polls after the erase command
C3_Witness ==
    /\ call.op = "chip_erase" /\ call.engine = "async" /\ result = "Ok"
    /\ ReportsIdle(log[1])
    /\ MaxBusy >= 1
    /\ Cardinality(BusyPollsAfterErase) = MaxBusy
    /\ Cardinality(Delays) = MaxBusy

\* C4: init (both engines) returns Ok only after a status read that reported
\* Busy clear, that read being its last transaction; and while every status
\* read reported Busy and no transaction failed, init has not returned and
\* has issued nothing but ReadStatus transactions.
C4_InitWaitsForIdle ==
    call.op = "init" =>
        /\ result = "Ok" => (Len(log) >= 1 /\ ReportsIdle(log[Len(log)]))
        /\ (\A i \in LogIdx : IsTxn(log[i]) => ReportsBusy(log[i])) =>
              /\ result = "none"
              /\ \A i \in LogIdx : IsTxn(log[i]) => IsStatusRead(log[i])

\* init against a chip that never clears Busy: still polling after many reads
C4_Witness ==
    /\ call.op = "init" /\ chip.stuck /\ result = "none"
    /\ Len(log) >= 4
    /\ \A i \in LogIdx : IsTxn(log[i]) => ReportsBusy(log[i])

\* C5: round trip against a chip that takes PageProgram: when page_program(addr,
\* data) returned Ok and the next call read(addr, buf) with len(buf) = len(data)
\* returned Ok, buf equals data, also when the chip was busy after the program
\* command.
C5_RoundTrip ==
    (/\ call.op = "read" /\ result = "Ok"
     /\ prog # <<>>
     /\ chip.latch) =>
        ((prog[1].addr = call.addr /\ Len(prog[1].data) = call.n) => buf = prog[1].data)

\* a full-length slice read back after the read had to wait for the chip
C5_Witness ==
    /\ call.op = "read" /\ result = "Ok" /\ chip.latch
    /\ prog # <<>> /\ prog[1].addr = call.addr
    /\ Len(prog[1].data) = MaxLen /\ call.n = MaxLen
    /\ ReportsBusy(log[1])
    /\ buf = prog[1].data

AddressedOpcodes == {Read, SectorErase, PageProg}

\* the u32s that differ from a at most in bits 24..31
SameLow24(a) == {b \in FrameAddrs : b.hi % 256 = a.hi % 256 /\ b.lo = a.lo}

\* the transactions a call with these arguments can issue
FramesOf(c) == {Script(c)[i].segs : i \in 1..Len(Script(c))}

\* C6: for every address a passed to read, sector_erase or page_program, the
\* outbound frame is the opcode followed by (a>>16)&0xFF, (a>>8)&0xFF, a&0xFF,
\* and it is a frame of the same call made with any address that differs from
\* a only in bits 24..31.
C6_AddressBytes ==
    call.op \in {"read", "sector_erase", "page_program"} =>
        \A i \in LogIdx :
            OpcodeOf(log[i]) \in AddressedOpcodes =>
                /\ log[i].segs[1].bytes =
                      <<OpcodeOf(log[i]), call.addr.hi % 256, call.addr.lo \div 256,
                        call.addr.lo % 256>>
                /\ \A b \in SameLow24(call.addr) :
                      log[i].segs \in FramesOf([call EXCEPT !.addr = b])

\* page_program at 0xAB020304 sent 0x02, 0x02, 0x03, 0x04
C6_Witness ==
    /\ call.op = "page_program" /\ result = "Ok"
    /\ call.addr = U32(171 * 256 + 2, 3 * 256 + 4)
    /\ \E i \in LogIdx : log[i].segs[1].bytes = <<PageProg, 2, 3, 4>>

\* C7: status decoding is total and truncating: whatever byte b the chip gives,
\* a read_status whose transaction went through returns Ok with the bits
\* b & 0x9F (b without its bits 5 and 6), and decoding those again changes nothing.
C7_StatusDecoding ==
    (call.op = "read_status" /\ result # "none" /\ log[1].ok) =>
        LET b == log[1].resp[2] IN
        /\ result = "Ok"
        /\ ret = <<b - 32 * Bit(b, 5) - 64 * Bit(b, 6)>>
        /\ from_bits_truncate(ret[1]) = ret[1]

\* the status byte 0xFD (bits 5 and 6 set) decoded to 0x9D
C7_Witness ==
    /\ call.op = "read_status" /\ result = "Ok"
    /\ log[1].resp[2] = 253
    /\ ret = <<157>>

\* C8: a failed transaction is the last event of its call and the call has
\* returned the error: nothing is issued after it, it is not issued again, and
\* no call returns an error without a failed transaction.
C8_FailureAborts ==
    /\ \A i \in LogIdx :
          (IsTxn(log[i]) /\ ~log[i].ok) => (i = Len(log) /\ result = "Err")
    /\ result = "Err" => (Len(log) >= 1 /\ IsTxn(log[Len(log)]) /\ ~log[Len(log)].ok)

\* the suspending chip_erase failed on a poll after the erase command, after a suspension
C8_Witness ==
    /\ call.op = "chip_erase" /\ call.engine = "async" /\ result = "Err"
    /\ ChipErasePos > 0
    /\ Len(log) >= ChipErasePos + 3
    /\ IsDelay(log[Len(log) - 1])
    /\ ~log[Len(log)].ok

\* C9: software_reset issues EnableReset (0x66) and Reset (0x99) back to back:
\* the transaction just before the Reset transaction is the EnableReset one.
C9_ResetBackToBack ==
    call.op = "software_reset" =>
        \A i \in LogIdx :
            OpcodeOf(log[i]) = Reset =>
                (i >= 2 /\ OpcodeOf(log[i - 1]) = EnableReset)

\* the bit of the status byte that is_busy / is_wel reports
FlagBit(o) == IF o = "is_busy" THEN 0 ELSE 1

\* C10: a call of is_busy or is_wel is one ReadStatus transaction (outbound
\* 0x05, inbound 2 bytes) and what it returns is the bit 0 (is_busy) or bit 1
\* (is_wel) of the second inbound byte of that transaction.
C10_FreshStatus ==
    call.op \in {"is_busy", "is_wel"} =>
        /\ Len(log) <= 1
        /\ result # "none" =>
              /\ Len(log) = 1
              /\ log[1].segs = <<W(<<ReadStatus>>), R(2)>>
              /\ result = "Ok" => ret = <<Bit(log[1].resp[2], FlagBit(call.op)) = 1>>

\* is_busy said idle although the placeholder byte before the status byte was 0xFF
C10_Witness ==
    /\ call.op = "is_busy" /\ result = "Ok"
    /\ log[1].resp[1] = 255
    /\ Bit(log[1].resp[2], 0) = 0
    /\ ret = <<FALSE>>

\* the status reads made right after a WriteEnable that came back with WEL clear
WelClearChecks ==
    {i \in LogIdx : /\ i >= 2
                    /\ log[i - 1].segs = <<W(<<WriteEnable>>)>> /\ log[i - 1].ok
                    /\ IsStatusRead(log[i]) /\ log[i].ok /\ Bit(log[i].resp[2], 1) = 0}

NoFailure == \A i \in LogIdx : log[i].ok

\* C11: page_program (both engines) treats a write-enable latch that is not set
\* as a soft condition: when the status read after WriteEnable reported WEL
\* clear and no transaction failed, the call that has returned has returned Ok
\* with the PageProgram transaction (opcode, 3 address bytes, then the data) as
\* its last one; and an error is returned only with a failed transaction.
C11_WelSoftCheck ==
    call.op = "page_program" =>
        /\ (WelClearChecks # {} /\ NoFailure /\ result # "none") =>
              /\ result = "Ok"
              /\ log[Len(log)].segs = <<W(Header(PageProg, call.addr)), W(call.data)>>
        /\ result = "Err" => ~NoFailure

\* a chip whose latch did not set: the warning's status read, then PageProgram, then Ok
C11_Witness ==
    /\ call.op = "page_program" /\ call.engine = "blocking" /\ result = "Ok"
    /\ WelClearChecks # {} /\ NoFailure
    /\ Len(call.data) = MaxLen
    /\ OpcodeOf(log[Len(log)]) = PageProg
    /\ IsStatusRead(log[Len(log) - 1])

\* the calls the spec says return without waiting for completion
ReturnsEarly ==
    call.op = "sector_erase" \/ (call.op = "chip_erase" /\ call.engine = "blocking")

\* C12: sector_erase (both engines) and the blocking chip_erase return without
\* waiting for completion: the mutating command is the last transaction of the
\* call, no status read follows it, and the call returns Ok right after it
\* (so it can return Ok while the chip is still Busy).
C12_ReturnsWithoutWaiting ==
    ReturnsEarly =>
        /\ \A i \in LogIdx :
              OpcodeOf(log[i]) \in {SectorErase, ChipErase} =>
                  (i = Len(log) /\ result # "none")
        /\ result = "Ok" =>
              /\ Len(log) >= 1 /\ log[Len(log)].ok
              /\ OpcodeOf(log[Len(log)]) =
                    (IF call.op = "sector_erase" THEN SectorErase ELSE ChipErase)

\* the blocking chip_erase has returned Ok and the chip is busy for MaxBusy more polls
C12_Witness ==
    /\ call.op = "chip_erase" /\ call.engine = "blocking" /\ result = "Ok"
    /\ OpcodeOf(log[Len(log)]) = ChipErase
    /\ MaxBusy >= 1 /\ chip.busy = MaxBusy /\ ChipBusy(chip)

\* a status poll or a suspension
IsPollOrDelay(e) == IsStatusRead(e) \/ IsDelay(e)

\* C13: the suspending chip_erase waits for completion: its transactions are
\* status polls until one reports not busy, then WriteEnable, then ChipErase
\* (0xC7), then status polls; it returns Ok only after a status read issued
\* after the ChipErase command reported Busy clear, and the chip is then idle.
C13_AsyncChipEraseWaits ==
    (call.op = "chip_erase" /\ call.engine = "async") =>
        /\ \A i \in LogIdx :
              IsTxn(log[i]) => OpcodeOf(log[i]) \in {ReadStatus, WriteEnable, ChipErase}
        /\ \A i \in LogIdx :
              OpcodeOf(log[i]) = WriteEnable =>
                  /\ i >= 2 /\ ReportsIdle(log[i - 1])
                  /\ \A j \in 1..(i - 1) : IsPollOrDelay(log[j])
        /\ \A i \in LogIdx :
              OpcodeOf(log[i]) = ChipErase =>
                  /\ i >= 2 /\ OpcodeOf(log[i - 1]) = WriteEnable /\ log[i - 1].ok
                  /\ \A j \in (i + 1)..Len(log) : IsPollOrDelay(log[j])
        /\ result = "Ok" =>
              /\ ChipErasePos > 0 /\ Len(log) > ChipErasePos
              /\ ReportsIdle(log[Len(log)])
              /\ ~ChipBusy(chip)

\* busy before the call and busy after the erase command: both loops polled, then Ok
C13_Witness ==
    /\ call.op = "chip_erase" /\ call.engine = "async" /\ result = "Ok"
    /\ ReportsBusy(log[1])
    /\ ChipErasePos > 0 /\ ReportsBusy(log[ChipErasePos + 1])
    /\ ReportsIdle(log[Len(log)]) /\ ~ChipBusy(chip)

\* a status read that came back with Busy and WriteEnableLatch both clear
ReportsBothClear(e) == ReportsIdle(e) /\ Bit(e.resp[2], 1) = 0

\* C14: the readiness guards of init differ.  The blocking init returns Ok only
\* after a status read with Busy and WriteEnableLatch both clear, and after a
\* read with either set it has not returned (it polls again); the suspending
\* init returns Ok at the first status read with Busy clear, also when that
\* read has WriteEnableLatch set.
C14_InitGuards ==
    call.op = "init" =>
        /\ \A i \in LogIdx : IsTxn(log[i]) => IsStatusRead(log[i])
        /\ IF call.engine = "blocking"
           THEN /\ result = "Ok" => (Len(log) >= 1 /\ ReportsBothClear(log[Len(log)]))
                /\ \A i \in LogIdx :
                      (log[i].ok /\ ~ReportsBothClear(log[i])) =>
                          (i < Len(log) \/ result = "none")
                /\ \A i \in LogIdx :
                      ReportsBothClear(log[i]) => (i = Len(log) /\ result = "Ok")
           ELSE /\ result = "Ok" => (Len(log) >= 1 /\ ReportsIdle(log[Len(log)]))
                /\ \A i \in LogIdx :
                      ReportsIdle(log[i]) => (i = Len(log) /\ result = "Ok")

\* the suspending init returned Ok on a first status read with WEL set
C14_Witness ==
    /\ call.op = "init" /\ call.engine = "async" /\ result = "Ok"
    /\ Len(log) = 1 /\ ReportsIdle(log[1]) /\ Bit(log[1].resp[2], 1) = 1

StatusReads == {i \in LogIdx : IsStatusRead(log[i])}

\* C15: the suspending init calls delay_ms exactly once, with 10 ms, after each
\* status read that is not ready and before the next status read, and never
\* after the ready one: reads and suspensions alternate strictly, and an init
\* that returned Ok after N not-ready polls made N + 1 status reads and N
\* suspensions.  The blocking init makes no suspension.
C15_InitSuspensions ==
    call.op = "init" =>
        IF call.engine = "async"
        THEN /\ \A i \in LogIdx :
                  IF i % 2 = 1 THEN IsStatusRead(log[i])
                  ELSE IsDelay(log[i]) /\ log[i].ms = 10 /\ ReportsBusy(log[i - 1])
             /\ \A i \in LogIdx : ReportsIdle(log[i]) => i = Len(log)
             /\ result = "Ok" =>
                  LET N == Cardinality({i \in LogIdx : ReportsBusy(log[i])}) IN
                  /\ Cardinality(StatusReads) = N + 1
                  /\ Cardinality(Delays) = N
        ELSE Delays = {}

\* a chip busy for MaxBusy polls: MaxBusy + 1 status reads, MaxBusy suspensions
C15_Witness ==
    /\ call.op = "init" /\ call.engine = "async" /\ result = "Ok"
    /\ MaxBusy >= 1
    /\ Len(log) = 2 * MaxBusy + 1
    /\ Cardinality(Delays) = MaxBusy

\* ---------------------------------------------------------------- side by side

\* the operations both engines have to run alike
SharedOps == {"read", "sector_erase", "page_program", "read_status", "is_busy", "is_wel"}

OtherEngine(e) == IF e = "blocking" THEN "async" ELSE "blocking"

\* the call in progress, made on the other engine
TwinCall == [call EXCEPT !.engine = OtherEngine(call.engine)]

\* where a handler goes after a transaction of step s that went through with
\* inbound bytes resp, from place p and phase ph: <<place, phase>>
AfterStep(s, resp, p, ph) ==
    CASE s.k = "poll" ->
           IF ~NotReady(s, from_bits_truncate(resp[s.idx])) THEN <<p + 1, "txn">>
           ELSE IF s.delay = <<>> THEN <<p, "txn">>
           ELSE <<p, "delay">>
      [] s.k = "is_wel" ->
           IF ph = "warn" THEN <<p + 1, "txn">>
           ELSE IF ~is_empty(And8(from_bits_truncate(resp[s.idx]), s.mask)) THEN <<p + 1, "txn">>
           ELSE <<p, "warn">>
      [] OTHER -> <<p + 1, "txn">>

\* The handler S run on the recorded bus: from place p and phase ph it is given
\* the outcomes and inbound bytes of log[i], log[i + 1], ...  The result it has
\* at the end of the log ("none": still running), or "diverged" when it would
\* issue another transaction or suspension than the recorded one, or has
\* returned before the end of the log.
RECURSIVE Replay(_, _, _, _)
Replay(S, i, p, ph) ==
    IF i > Len(log) THEN (IF p > Len(S) THEN "Ok" ELSE "none")
    ELSE IF p > Len(S) THEN "diverged"
    ELSE LET s == S[p]
             e == log[i]
         IN  IF IsDelay(e)
             THEN IF ph = "delay" /\ s.delay = <<e.ms>>
                  THEN Replay(S, i + 1, p, "txn")
                  ELSE "diverged"
             ELSE IF ph = "delay" THEN "diverged"
             ELSE IF e.segs # (IF ph = "warn" THEN s.warn ELSE s.segs) THEN "diverged"
             ELSE IF ~e.ok THEN (IF i = Len(log) THEN "Err" ELSE "diverged")
             ELSE LET n == AfterStep(s, e.resp, p, ph) IN Replay(S, i + 1, n[1], n[2])

\* what a query step returns on the inbound bytes resp
AnswerOn(s, resp) ==
    CASE s.f = "status" -> <<from_bits_truncate(resp[s.idx])>>
      [] s.f = "flag" -> <<~is_empty(And8(from_bits_truncate(resp[s.idx]), s.mask))>>
      [] s.f = "tail" -> Tail(resp)
      [] OTHER -> resp

\* what the handler S hands back to the caller after the recorded bus: <<ret, buf>>
ReplayValue(S) ==
    LET s == S[Len(S)]
        e == log[Len(log)]
    IN  <<IF s.k = "query" THEN AnswerOn(s, e.resp) ELSE <<>>,
          IF s.k = "xfer" /\ ~s.segs[2].w THEN e.resp ELSE <<>>>>

\* C16: the two engines are identical on read, sector_erase, page_program,
\* read_status, is_busy and is_wel: given the chip responses and transport
\* failures one engine met, the other engine issues the same sequence of
\* transactions (same segments, same bytes), is at the same point (still
\* running, Ok or Err) and returns the same value.
C16_EnginesAgree ==
    call.op \in SharedOps =>
        /\ Replay(Script(TwinCall), 1, 1, "txn") = result
        /\ result = "Ok" => ReplayValue(Script(TwinCall)) = <<ret, buf>>

\* page_program on the blocking engine, latch not set: the suspending engine
\* makes the same five transactions (the warning's status read among them)
\* and returns Ok
C16_Witness ==
    /\ call.op = "page_program" /\ call.engine = "blocking" /\ result = "Ok"
    /\ Len(log) = 5
    /\ WelClearChecks # {}
    /\ Len(call.data) = MaxLen
    /\ Replay(async_page_program(call.addr, call.data), 1, 1, "txn") = "Ok"

\* C17: on the suspending engine wait_done never suspends: read, sector_erase
\* and page_program call delay_ms zero times however many status polls report
\* Busy; a call in which delay_ms was invoked is an init or a chip_erase of
\* the suspending engine.
C17_WaitDoneNeverSuspends ==
    /\ (call.engine = "async" /\ call.op \in {"read", "sector_erase", "page_program"}) =>
          Delays = {}
    /\ Delays # {} => (call.engine = "async" /\ call.op \in {"init", "chip_erase"})

\* the suspending sector_erase polled a busy chip MaxBusy times without suspending
C17_Witness ==
    /\ call.op = "sector_erase" /\ call.engine = "async" /\ result = "Ok"
    /\ MaxBusy >= 1
    /\ Cardinality({i \in LogIdx : ReportsBusy(log[i])}) = MaxBusy
    /\ Delays = {}

\* ---------------------------------------------------------------- termination

\* A transport that never fails, chips on which every busy period ends: the
\* caller makes any calls, and a call that has started keeps running (the
\* thread runs on, the executor polls the future and the delay elapses).
LiveChips == {c \in Chips : ~c.stuck}

\* the calls made: one address, whole-length reads and programs
LiveAddr == U32(1, 515)

LiveCalls ==
    InitCalls
    \cup {Invoke(e, "read", LiveAddr, <<>>, MaxLen) : e \in Engines}
    \cup {Invoke(e, "sector_erase", LiveAddr, <<>>, 0) : e \in Engines}
    \cup {Invoke(e, "page_program", LiveAddr, SubSeq(Pattern, 1, MaxLen), 0) : e \in Engines}
    \cup {Invoke(e, "chip_erase", U32(0, 0), <<>>, 0) : e \in Engines}
    \cup {Invoke("blocking", "software_reset", U32(0, 0), <<>>, 0)}

\* the transaction of this step, if any, went through
Sound == log' # <<>> => log'[Len(log')].ok

CallLive == CallOf(LiveCalls)

PollOk == Poll /\ Sound

CommandOk == Command /\ Sound

TransferOk == Transfer /\ Sound

CheckWelOk == CheckWel /\ Sound

WarnOk == Warn /\ Sound

\* one step of the call in progress
Run ==
    \/ PollOk
    \/ Delay
    \/ CommandOk
    \/ TransferOk
    \/ CheckWelOk
    \/ WarnOk

InitLive == InitOf(LiveChips, {"none"})

NextLive ==
    \/ CallLive
    \/ Return
    \/ Run

SpecLive == InitLive /\ [][NextLive]_vars /\ WF_vars(Run)

LiveOps == {"read", "sector_erase", "page_program", "chip_erase", "software_reset"}

\* the opcode of the primary transaction of an operation
Primary(o) ==
    CASE o = "read" -> Read
      [] o = "sector_erase" -> SectorErase
      [] o = "page_program" -> PageProg
      [] o = "chip_erase" -> ChipErase
      [] o = "software_reset" -> Reset
      [] OTHER -> 0

\* the call has returned Ok and its primary transaction is in the log exactly once
ReturnedOkOnce ==
    /\ call.op \in LiveOps /\ result = "Ok"
    /\ Cardinality({i \in LogIdx : OpcodeOf(log[i]) = Primary(call.op)}) = 1

\* C18: with a transport that never fails and a chip on which every busy period
\* ends after finitely many status polls, every call of read, sector_erase,
\* page_program, chip_erase (both engines) and software_reset eventually
\* returns Ok, having issued its primary transaction exactly once.
C18_Terminates == (call.op \in LiveOps /\ pc >= 1) ~> ReturnedOkOnce

\* software_reset started on a chip still busy from an erase and returned Ok
C18_Witness ==
    /\ call.op = "software_reset" /\ ReturnedOkOnce
    /\ MaxBusy >= 1
    /\ Cardinality({i \in LogIdx : ReportsBusy(log[i])}) = MaxBusy
    /\ NoFailure

\* the single transaction of an identification read, once it was made
IdTxn == log[1]

\* read_manufacturer_device_id: one transaction, outbound 0x90, 0, 0, 0, inbound
\* exactly 2 bytes, returned unchanged
MfDIdShape ==
    call.op = "read_manufacturer_device_id" =>
        /\ Len(log) <= 1
        /\ result # "none" =>
              /\ Len(log) = 1
              /\ IdTxn.segs = <<W(<<144, 0, 0, 0>>), R(2)>>
        /\ result = "Ok" => (Len(IdTxn.resp) = 2 /\ ret = IdTxn.resp)

\* C19 as claimed: the identification reads have the shapes of the wire-protocol
\* table; read_jedec_id issues one transaction with the single outbound byte
\* 0x9F and an inbound segment of at most 11 bytes.
C19_IdShapesAsClaimed ==
    /\ MfDIdShape
    /\ call.op = "read_jedec_id" =>
          /\ Len(log) <= 1
          /\ result # "none" =>
                /\ Len(log) = 1
                /\ IdTxn.segs[1] = W(<<159>>)
                /\ ~IdTxn.segs[2].w /\ IdTxn.segs[2].len <= 11

\* C19 (amended): read_manufacturer_device_id as claimed; read_jedec_id issues
\* one transaction with the single outbound byte 0x9F and an inbound segment of
\* exactly 12 bytes, the last 11 of which go to the identification decoder.
C19_IdShapes ==
    /\ MfDIdShape
    /\ call.op = "read_jedec_id" =>
          /\ Len(log) <= 1
          /\ result # "none" =>
                /\ Len(log) = 1
                /\ IdTxn.segs = <<W(<<159>>), R(12)>>
          /\ result = "Ok" =>
                /\ Len(IdTxn.resp) = 12
                /\ ret = SubSeq(IdTxn.resp, 2, 12)

\* read_jedec_id returned: 12 bytes came in, 11 were handed on
C19_Witness ==
    /\ call.op = "read_jedec_id" /\ result = "Ok"
    /\ Len(IdTxn.resp) = 12 /\ Len(ret) = 11
    /\ ret[1] = IdTxn.resp[2]

\* this step put a PageProgram, SectorErase or ChipErase command on the bus
MutationArrives ==
    /\ Len(log') = Len(log) + 1
    /\ log'[Len(log')].ok
    /\ OpcodeOf(log'[Len(log')]) \in {PageProg, SectorErase, ChipErase}

\* C20: against a chip on which WriteEnable sets WEL, an accepted mutating
\* command makes the chip Busy for finitely many polls and WEL clears when the
\* mutation completes, every PageProgram, SectorErase and ChipErase command of
\* any sequence of calls reaches the chip while Busy is clear and WEL is set:
\* no mutating command is dropped.
C20_NoMutationDropped ==
    [][(chip.latch /\ MutationArrives) => (~ChipBusy(chip) /\ chip.wel)]_vars

\* page_program found the chip busy from the call before, waited, and its
\* command was taken: the data is in the memory and the chip is busy again
C20_Witness ==
    /\ call.op = "page_program" /\ result = "Ok" /\ NoFailure
    /\ chip.latch
    /\ ReportsBusy(log[1])
    /\ MaxBusy >= 1 /\ chip.busy = MaxBusy
    /\ Len(call.data) = MaxLen
    /\ \A i \in 1..MaxLen : mem[Low24(call.addr) + i - 1] = call.data[i]

\* ---------------------------------------------------------------- the latch after an abort

\* The caller holds an engine made earlier and the chip is as a successful init
\* leaves it: idle, WEL clear.  WEL is then set only by what the driver sends.
WelChips == {c \in Chips : c.busy = 0 /\ ~c.wel /\ ~c.stuck}

WelCalls ==
    LiveCalls \cup QueryCalls \cup IdCalls

CallWel == CallOf(WelCalls)

InitWel == InitOf(WelChips, Engines)

NextWel ==
    \/ CallWel
    \/ Return
    \/ Poll
    \/ Delay
    \/ Command
    \/ Transfer
    \/ CheckWel
    \/ Warn
    \/ Query

SpecWel == InitWel /\ [][NextWel]_vars

\* a status read that came back with Busy clear and WEL set
ReportsIdleLatched(e) == ReportsIdle(e) /\ Bit(e.resp[2], 1) = 1

\* the mutating commands of the call that went through
MutationsSent ==
    {i \in LogIdx : log[i].ok /\ OpcodeOf(log[i]) \in {PageProg, SectorErase, ChipErase}}

\* the call is a mutating operation that returned Err after its WriteEnable went through
AbortedAfterWriteEnable ==
    /\ call.op \in {"sector_erase", "page_program", "chip_erase"}
    /\ result = "Err"
    /\ \E j \in LogIdx : log[j].segs = <<W(<<WriteEnable>>)>> /\ log[j].ok

\* no command but a mutating one clears the latch of an idle chip: a call that
\* found the chip idle with WEL set and sent no mutating command has left it so
LatchKept ==
    (Len(log) >= 1 /\ ReportsIdleLatched(log[1]) /\ MutationsSent = {}) =>
        (~ChipBusy(chip) /\ chip.wel)

\* the blocking init that finds the chip idle with WEL set issues only
\* ReadStatus, reads the same again and does not return Ok
BlockingInitSpins ==
    (/\ call.op = "init" /\ call.engine = "blocking"
     /\ Len(log) >= 1 /\ ReportsIdleLatched(log[1])) =>
        /\ \A i \in LogIdx : IsStatusRead(log[i]) /\ (log[i].ok => ReportsIdleLatched(log[i]))
        /\ result # "Ok"
        /\ NoFailure => result = "none"

\* the suspending init that finds the chip idle with WEL set returns Ok at once
AsyncInitReturns ==
    (/\ call.op = "init" /\ call.engine = "async"
     /\ Len(log) >= 1 /\ ReportsIdleLatched(log[1])) =>
        (Len(log) = 1 /\ result = "Ok")

\* C21 as claimed: the driver has no command that clears the write-enable latch
\* of an idle chip; a mutating operation aborted by a transport failure after
\* its WriteEnable was sent leaves the chip idle with WEL set; from that state
\* a blocking init issues only ReadStatus transactions and never returns, while
\* a suspending init returns Ok.
C21_LatchAfterAbortAsClaimed ==
    /\ LatchKept
    /\ (chip.latch /\ AbortedAfterWriteEnable) => (~ChipBusy(chip) /\ chip.wel)
    /\ BlockingInitSpins
    /\ AsyncInitReturns

\* C21 (amended): as claimed, for a mutating operation aborted after its
\* WriteEnable went through and before its mutating command did (the suspending
\* chip_erase aborted in its final polls has sent the erase); the blocking init
\* from that state returns only on a transport failure, never Ok.
C21_LatchAfterAbort ==
    /\ LatchKept
    /\ (chip.latch /\ AbortedAfterWriteEnable /\ MutationsSent = {}) =>
          (~ChipBusy(chip) /\ chip.wel)
    /\ BlockingInitSpins
    /\ AsyncInitReturns

\* the blocking init, started on a chip left idle with WEL set, has read the
\* status four times and is still polling
C21_Witness ==
    /\ call.op = "init" /\ call.engine = "blocking" /\ result = "none"
    /\ Len(log) >= 4
    /\ \A i \in LogIdx : ReportsIdleLatched(log[i])
    /\ ~ChipBusy(chip) /\ chip.wel

====
